---- MODULE Spec2Model ----
(***************************************************************************)
(* Call-signaling and presence layer of the process entrypoint             *)
(* (src/unnamed/part_013, lines 153-570): the three in-memory maps         *)
(* onlineUsers, activeCalls and callTimeouts, the socket handlers that     *)
(* drive them, the 30 s missed-call timers and the handlers suspended on   *)
(* `await Message.create`.                                                 *)
(*                                                                         *)
(* Every handler runs as one event-loop turn up to its first await; each   *)
(* resumption after an await is a further turn.  A Map is a sequence of    *)
(* entries in insertion order where iteration order is used (activeCalls)  *)
(* and a function otherwise.                                               *)
(***************************************************************************)
EXTENDS Integers, Sequences, FiniteSets, TLC

\* ------------------------------------------------------------------ bounds
MaxCalls == 2
MaxEnding == 1
MaxTicks == 1

\* ------------------------------------------------------- program constants
CALL_TIMEOUT_MS == 30000

\* ----------------------------------------------------------- value domains
Sockets == {"s1", "s2"}
Users == {"u1", "u2"}
\* the 'user:online' events of the call scenarios: (connection, userId)
Announcements == {<<"s1", "u1">>, <<"s2", "u2">>}
\* the 'audio:call:initiate' events of the call scenarios: the connection that sends them,
\* the callerId and the receiverId it names
Initiators == {"s1"}
CallerIds == {"u1"}
ReceiverIds == {"u2"}
NoUser == ""
NoSocket == "none"
Broadcast == "all"
Undefined == 0 - 1
JsFalse == 0 - 1
CallerInfos == {"infoA"}
\* the 'audio:call:end' events of the call scenarios: (connection, duration); the caller's
\* client measures the duration, the receiver's leaves it out
EndEvents == {<<"s1", 42>>, <<"s2", Undefined>>}
Reasons == {"", "busy"}
RelayKinds == {"audio:webrtc:offer", "audio:webrtc:answer", "audio:webrtc:ice-candidate"}

\* callId = `call_${callerId}_${receiverId}_${Date.now()}`
CallIdOf(callerId, receiverId, ts) == [caller |-> callerId, receiver |-> receiverId, ts |-> ts]
NoCall == CallIdOf("none", "none", Undefined)
BogusCall == CallIdOf("u1", "u1", Undefined)

VARIABLES
  now,          \* Date.now(), in milliseconds
  closed,       \* the connections that have disconnected
  socketUserId, \* socket.userId of each connection (NoUser while undefined)
  onlineUsers,  \* Map userId -> socket.id
  activeCalls,  \* Map callId -> session, as the sequence of its values in insertion order
  callTimeouts, \* Map callId -> timer handle
  timers,       \* the Timeout objects created by setTimeout, indexed by handle
  tasks,        \* handlers suspended on `await Message.create`
  emits,        \* the events the last turn emitted, in order
  written       \* the documents the last turn created with Message.create

vars == <<now, closed, socketUserId, onlineUsers, activeCalls, callTimeouts,
          timers, tasks, emits, written>>

\* ------------------------------------------------------------ Map helpers
IdsOf(calls) == {calls[i].id : i \in 1..Len(calls)}
CallIds == IdsOf(activeCalls)
\* a lookup that finds a session whatever the key
HasCallAlways(callId) == TRUE
\* the truthiness of activeCalls.get(callId)
HasCall(callId) == callId \in CallIds

RECURSIVE RemoveAt(_, _)
RemoveAt(seq, i) ==
  IF seq = <<>> THEN <<>>
  ELSE IF i = 1 THEN Tail(seq)
  ELSE <<Head(seq)>> \o RemoveAt(Tail(seq), i - 1)

\* Map.prototype.set: an existing key keeps its position, a new key goes last
MapSet(calls, call) ==
  IF \E i \in 1..Len(calls) : calls[i].id = call.id
  THEN [i \in 1..Len(calls) |-> IF calls[i].id = call.id THEN call ELSE calls[i]]
  ELSE Append(calls, call)

\* a delete that removes nothing
MapDeleteNothing(calls, callId) == calls

\* a delete that empties the Map
MapDeleteAll(calls, callId) == <<>>

\* Map.prototype.delete
MapDelete(calls, callId) == SelectSeq(calls, LAMBDA c : c.id # callId)

FnDelete(f, k) == [x \in DOMAIN f \ {k} |-> f[x]]
\* a set that keeps the value of a key already present
FnSetKeepFirst(f, k, v) == [x \in DOMAIN f \cup {k} |-> IF x \in DOMAIN f THEN f[x] ELSE v]
FnSet(f, k, v) == [x \in DOMAIN f \cup {k} |-> IF x = k THEN v ELSE f[x]]

\* a clearTimeout that cancels nothing
ClearTimeoutNothing(ts, h, by) == ts

\* clearTimeout(handle): a pending timer is cancelled, any other is left alone; `by`
\* records the handler that cancelled it
ClearTimeoutOf(ts, h, by) ==
  [i \in 1..Len(ts) |-> IF i = h /\ ts[i].state = "pending"
                        THEN [ts[i] EXCEPT !.state = "cleared", !.by = by] ELSE ts[i]]

\* `const timeout = callTimeouts.get(callId); if (timeout) { clearTimeout(timeout);
\*  callTimeouts.delete(callId); }`
TimersAfterClear(callId, by) ==
  IF callId \in DOMAIN callTimeouts THEN ClearTimeoutOf(timers, callTimeouts[callId], by)
  ELSE timers
TimeoutsAfterClear(callId) ==
  IF callId \in DOMAIN callTimeouts THEN FnDelete(callTimeouts, callId) ELSE callTimeouts

\* ----------------------------------------------------------------- events
\* an emit that reaches every connection whatever its destination
EmitToAll(to, event, callId, data) == [to |-> Broadcast, event |-> event, callId |-> callId, data |-> data]
Emit(to, event, callId, data) == [to |-> to, event |-> event, callId |-> callId, data |-> data]
NoData == [reason |-> "", callType |-> "", duration |-> Undefined, wasAccepted |-> JsFalse,
           at |-> Undefined, user |-> NoUser, info |-> "", flag |-> FALSE]

\* a session whose two connection handles are exchanged
SessionSwapped(callId, callerId, receiverId, callerSock, receiverSock, callerInfo) ==
  [id |-> callId, caller |-> callerId, receiver |-> receiverId,
   callerSocketId |-> receiverSock, receiverSocketId |-> callerSock,
   status |-> "ringing", startedAt |-> now, acceptedAt |-> Undefined,
   callerInfo |-> callerInfo]
\* a session of activeCalls (lines 200-209)
Session(callId, callerId, receiverId, callerSock, receiverSock, callerInfo) ==
  [id |-> callId, caller |-> callerId, receiver |-> receiverId,
   callerSocketId |-> callerSock, receiverSocketId |-> receiverSock,
   status |-> "ringing", startedAt |-> now, acceptedAt |-> Undefined,
   callerInfo |-> callerInfo]
NoSession == [id |-> NoCall, caller |-> NoUser, receiver |-> NoUser,
              callerSocketId |-> NoSocket, receiverSocketId |-> NoSocket,
              status |-> "none", startedAt |-> Undefined, acceptedAt |-> Undefined,
              callerInfo |-> ""]

\* activeCalls.get(callId): the session, or NoSession for undefined
GetCall(callId) ==
  IF callId \in CallIds
  THEN activeCalls[CHOOSE i \in 1..Len(activeCalls) : activeCalls[i].id = callId]
  ELSE NoSession

\* `call` as a suspended handler holds it: a reference to the session object, of which
\* the handler reads after its await only fields that no handler assigns
CallRef(call) == [caller |-> call.caller, receiver |-> call.receiver,
                  callerSocketId |-> call.callerSocketId,
                  receiverSocketId |-> call.receiverSocketId]

\* a handler suspended on `await Message.create`: the event it handles, its locals, the
\* write it awaits (step) and the documents it has created so far (wrote)
NoTask == [kind |-> "none", callId |-> NoCall, call |-> CallRef(NoSession), step |-> 0,
           sock |-> NoSocket, finalDuration |-> Undefined, wasAccepted |-> JsFalse,
           callStatus |-> "", wrote |-> <<>>]

\* the 'audio:call:end' handlers suspended at the moment
Ending == Cardinality({i \in 1..Len(tasks) : tasks[i].kind = "end"})

\* -------------------------------------------------------------------- Init
Init ==
  /\ now = 0
  /\ closed = {}
  /\ socketUserId = [s \in Sockets |-> NoUser]
  /\ onlineUsers = [u \in {} |-> NoSocket]
  /\ activeCalls = <<>>
  /\ callTimeouts = [c \in {} |-> 0]
  /\ timers = <<>>
  /\ tasks = <<>>
  /\ written = <<>>
  /\ emits = <<>>

\* socket.on('user:online', userId => ...)
UserOnline(s, userId) ==
  /\ s \notin closed
  /\ IF userId = NoUser
     THEN /\ emits' = <<>>
          /\ UNCHANGED <<socketUserId, onlineUsers>>
     ELSE /\ socketUserId' = [socketUserId EXCEPT ![s] = userId]
          /\ onlineUsers' = FnSet(onlineUsers, userId, s)
          /\ emits' = <<Emit(Broadcast, "user:status", NoCall,
                             [NoData EXCEPT !.user = userId, !.flag = TRUE])>>
  /\ written' = <<>>
  /\ UNCHANGED <<now, closed, activeCalls, callTimeouts, timers, tasks>>

\* socket.on('audio:call:initiate', async ({ receiverId, callerId, callerInfo }) => ...)
Initiate(s, receiverId, callerId, callerInfo) ==
  LET callId == CallIdOf(callerId, receiverId, now)
      handle == Len(timers) + 1
  IN
  /\ s \notin closed
  /\ IF receiverId \notin DOMAIN onlineUsers
     THEN /\ emits' = <<Emit(s, "audio:call:error", NoCall,
                             [NoData EXCEPT !.reason = "User is offline"])>>
          /\ UNCHANGED <<activeCalls, callTimeouts, timers>>
     ELSE /\ Len(timers) < MaxCalls
          /\ activeCalls' = MapSet(activeCalls,
                 Session(callId, callerId, receiverId, s, onlineUsers[receiverId], callerInfo))
          /\ timers' = Append(timers, [callId |-> callId, deadline |-> now + CALL_TIMEOUT_MS,
                                       state |-> "pending", by |-> ""])
          /\ callTimeouts' = FnSet(callTimeouts, callId, handle)
          /\ emits' = <<Emit(s, "audio:call:initiated", callId,
                             [NoData EXCEPT !.user = receiverId]),
                        Emit(onlineUsers[receiverId], "audio:call:incoming", callId,
                             [NoData EXCEPT !.info = callerInfo])>>
  /\ written' = <<>>
  /\ UNCHANGED <<now, closed, socketUserId, onlineUsers, tasks>>

\* the setTimeout callback of lines 212-274, up to its first await
TimerFire(h) ==
  LET callId == timers[h].callId IN
  /\ timers[h].state = "pending"
  /\ now >= timers[h].deadline
  /\ timers' = [timers EXCEPT ![h].state = "fired"]
  /\ emits' = <<>>
  /\ IF HasCall(callId) /\ GetCall(callId).status = "ringing"
     THEN tasks' = Append(tasks, [NoTask EXCEPT !.kind = "timeout", !.callId = callId,
                                       !.call = CallRef(GetCall(callId)), !.step = 1,
                                       !.finalDuration = 0, !.callStatus = "missed"])
     ELSE tasks' = tasks
  /\ written' = <<>>
  /\ UNCHANGED <<now, closed, socketUserId, onlineUsers, activeCalls, callTimeouts>>

\* socket.on('audio:call:accept', async ({ callId }) => ...)
Accept(s, callId) ==
  /\ s \notin closed
  /\ IF ~HasCall(callId)
     THEN /\ emits' = <<>>
          /\ UNCHANGED <<activeCalls, callTimeouts, timers>>
     ELSE LET call == [GetCall(callId) EXCEPT !.status = "active", !.acceptedAt = now] IN
          /\ timers' = TimersAfterClear(callId, "accept")
          /\ callTimeouts' = TimeoutsAfterClear(callId)
          /\ activeCalls' = MapSet(activeCalls, call)
          /\ emits' = <<Emit(call.callerSocketId, "audio:call:accepted", callId,
                             [NoData EXCEPT !.at = call.acceptedAt]),
                        Emit(call.receiverSocketId, "audio:call:accepted", callId,
                             [NoData EXCEPT !.at = call.acceptedAt])>>
  /\ written' = <<>>
  /\ UNCHANGED <<now, closed, socketUserId, onlineUsers, tasks>>

\* socket.on('audio:call:decline', async ({ callId, reason }) => ...)
Decline(s, callId, reason) ==
  /\ s \notin closed
  /\ IF ~HasCall(callId)
     THEN /\ emits' = <<>>
          /\ UNCHANGED <<activeCalls, callTimeouts, timers>>
     ELSE LET call == GetCall(callId) IN
          /\ timers' = TimersAfterClear(callId, "decline")
          /\ callTimeouts' = TimeoutsAfterClear(callId)
          /\ emits' = <<Emit(call.callerSocketId, "audio:call:declined", callId,
                             [NoData EXCEPT !.reason = IF reason # "" THEN reason
                                                       ELSE "Call declined"])>>
          /\ activeCalls' = MapDelete(activeCalls, callId)
  /\ written' = <<>>
  /\ UNCHANGED <<now, closed, socketUserId, onlineUsers, tasks>>

\* finalDuration of lines 388-392
FinalDuration(call, duration) ==
  IF duration # Undefined THEN duration
  ELSE IF call.acceptedAt # Undefined THEN (now - call.acceptedAt) \div 1000
  ELSE 0

\* `call.status === 'active' && call.acceptedAt`: false, or the acceptedAt value
WasAccepted(call) == IF call.status = "active" THEN call.acceptedAt ELSE JsFalse
Truthy(v) == v # JsFalse

\* a status that looks at the acceptance only
CallStatusIgnoringDuration(call, finalDuration) ==
  IF Truthy(WasAccepted(call)) THEN "completed" ELSE "missed"

\* callStatus of line 395
CallStatus(call, finalDuration) ==
  IF Truthy(WasAccepted(call)) /\ finalDuration > 0 THEN "completed" ELSE "missed"

\* socket.on('audio:call:end', async ({ callId, duration }) => ...), up to its first await
EndCall(s, callId, duration) ==
  /\ s \notin closed
  /\ IF ~HasCall(callId)
     THEN UNCHANGED <<callTimeouts, timers, tasks>>
     ELSE LET call == GetCall(callId)
              finalDuration == FinalDuration(call, duration)
          IN
          /\ Ending < MaxEnding
          /\ timers' = TimersAfterClear(callId, "end")
          /\ callTimeouts' = TimeoutsAfterClear(callId)
          /\ tasks' = Append(tasks, [NoTask EXCEPT !.kind = "end", !.callId = callId,
                                     !.call = CallRef(call), !.step = 1, !.sock = s,
                                     !.finalDuration = finalDuration,
                                     !.wasAccepted = WasAccepted(call),
                                     !.callStatus = CallStatus(call, finalDuration)])
  /\ emits' = <<>>
  /\ written' = <<>>
  /\ UNCHANGED <<now, closed, socketUserId, onlineUsers, activeCalls>>

\* a second document that repeats the first instead of mirroring it
HistoryRecordUnmirrored(task) ==
  [sender |-> task.call.caller, receiver |-> task.call.receiver,
   type |-> "call", duration |-> task.finalDuration, callType |-> "audio",
   status |-> task.callStatus]

\* the document passed to Message.create: the first for the caller, the second mirrored
HistoryRecord(task) ==
  [sender |-> IF task.step = 1 THEN task.call.caller ELSE task.call.receiver,
   receiver |-> IF task.step = 1 THEN task.call.receiver ELSE task.call.caller,
   type |-> "call", duration |-> task.finalDuration, callType |-> "audio",
   status |-> task.callStatus]

\* a handler that notifies the caller connection only
TaskEmitsCallerOnly(task) ==
  <<Emit(task.call.callerSocketId,
         IF task.kind = "timeout" THEN "audio:call:missed" ELSE "audio:call:ended",
         task.callId, NoData)>>

\* what a suspended handler emits once its try/catch around the writes is left
TaskEmits(task) ==
  IF task.kind = "timeout"
  THEN <<Emit(task.call.callerSocketId, "audio:call:missed", task.callId,
              [NoData EXCEPT !.reason = "No answer", !.callType = "outgoing"]),
         Emit(task.call.receiverSocketId, "audio:call:missed", task.callId,
              [NoData EXCEPT !.reason = "Missed call", !.callType = "incoming"])>>
  ELSE LET endData == [NoData EXCEPT !.duration = task.finalDuration,
                                     !.wasAccepted = task.wasAccepted,
                                     !.user = socketUserId[task.sock]]
       IN <<Emit(task.call.callerSocketId, "audio:call:ended", task.callId, endData),
            Emit(task.call.receiverSocketId, "audio:call:ended", task.callId, endData)>>

\* a pending `await Message.create(...)` settles: it resolves (ok) or rejects.  After the
\* first write the handler awaits the second; after the second, or after a rejection,
\* it runs to its end.
TaskResume(i, ok) ==
  LET task == tasks[i]
      after == IF ok THEN [task EXCEPT !.wrote = Append(@, HistoryRecord(task))] ELSE task
  IN
  /\ i \in 1..Len(tasks)
  /\ written' = IF ok THEN <<HistoryRecord(task)>> ELSE <<>>
  /\ IF ok /\ task.step = 1
     THEN /\ tasks' = [tasks EXCEPT ![i] = [after EXCEPT !.step = 2]]
          /\ emits' = <<>>
          /\ UNCHANGED <<activeCalls, callTimeouts>>
     ELSE /\ tasks' = RemoveAt(tasks, i)
          /\ emits' = TaskEmits(task)
          /\ activeCalls' = MapDelete(activeCalls, task.callId)
          /\ callTimeouts' = IF task.kind = "timeout" THEN FnDelete(callTimeouts, task.callId)
                             ELSE callTimeouts
  /\ UNCHANGED <<now, closed, socketUserId, onlineUsers, timers>>

\* a relay that forwards only what names a stored session
RelayValidated(s, kind, callId, target) ==
  /\ s \notin closed
  /\ emits' = IF target \in DOMAIN onlineUsers /\ HasCall(callId)
              THEN <<Emit(onlineUsers[target], kind, callId,
                          [NoData EXCEPT !.user = socketUserId[s], !.info = "payload"])>>
              ELSE <<>>
  /\ written' = <<>>
  /\ UNCHANGED <<now, closed, socketUserId, onlineUsers, activeCalls, callTimeouts, timers, tasks>>

\* socket.on('audio:webrtc:offer' | 'audio:webrtc:answer' | 'audio:webrtc:ice-candidate')
Relay(s, kind, callId, target) ==
  /\ s \notin closed
  /\ emits' = IF target \in DOMAIN onlineUsers
              THEN <<Emit(onlineUsers[target], kind, callId,
                          [NoData EXCEPT !.user = socketUserId[s], !.info = "payload"])>>
              ELSE <<>>
  /\ written' = <<>>
  /\ UNCHANGED <<now, closed, socketUserId, onlineUsers, activeCalls, callTimeouts, timers, tasks>>

\* a filter that looks at the caller side only
InvolvesCaller(call, s) == call.callerSocketId = s

\* the sessions the disconnect handler tears down (line 537)
Involves(call, s) == call.callerSocketId = s \/ call.receiverSocketId = s

\* endData of lines 546-557 and its recipient, the other party (lines 560-564)
DisconnectEmit(call, s) ==
  Emit(IF call.callerSocketId = s THEN call.receiverSocketId ELSE call.callerSocketId,
       "audio:call:ended", call.id,
       [NoData EXCEPT !.duration = IF call.acceptedAt # Undefined
                                   THEN (now - call.acceptedAt) \div 1000 ELSE 0,
                      !.wasAccepted = WasAccepted(call),
                      !.reason = "User disconnected"])

\* socket.on('disconnect', () => ...)
Disconnect(s) ==
  LET hit == SelectSeq(activeCalls, LAMBDA c : Involves(c, s))
      hitIds == {hit[i].id : i \in 1..Len(hit)}
      cleared == {callTimeouts[c] : c \in hitIds \cap DOMAIN callTimeouts}
  IN
  /\ s \notin closed
  /\ closed' = closed \cup {s}
  /\ onlineUsers' = IF socketUserId[s] # NoUser THEN FnDelete(onlineUsers, socketUserId[s])
                    ELSE onlineUsers
  /\ timers' = [h \in 1..Len(timers) |->
                  IF h \in cleared /\ timers[h].state = "pending"
                  THEN [timers[h] EXCEPT !.state = "cleared", !.by = "disconnect"]
                  ELSE timers[h]]
  /\ callTimeouts' = [c \in DOMAIN callTimeouts \ hitIds |-> callTimeouts[c]]
  /\ activeCalls' = SelectSeq(activeCalls, LAMBDA c : ~Involves(c, s))
  /\ emits' = (IF socketUserId[s] # NoUser
               THEN <<Emit(Broadcast, "user:status", NoCall,
                           [NoData EXCEPT !.user = socketUserId[s], !.flag = FALSE])>>
               ELSE <<>>)
              \o [i \in 1..Len(hit) |-> DisconnectEmit(hit[i], s)]
  /\ written' = <<>>
  /\ UNCHANGED <<now, socketUserId, tasks>>

\* the clock advances
Tick(d) ==
  /\ now + d <= MaxTicks * CALL_TIMEOUT_MS
  /\ now' = now + d
  /\ emits' = <<>>
  /\ written' = <<>>
  /\ UNCHANGED <<closed, socketUserId, onlineUsers, activeCalls, callTimeouts, timers, tasks>>

\* the callIds a client can name: those ever generated, and one that never was
KnownCallIds == {timers[h].callId : h \in 1..Len(timers)} \cup {BogusCall}

\* the call scenarios: the two users of Announcements, calls from Initiators
Next ==
  \/ \E a \in Announcements : UserOnline(a[1], a[2])
  \/ \E s \in Initiators, r \in ReceiverIds, c \in CallerIds, info \in CallerInfos :
        Initiate(s, r, c, info)
  \/ \E h \in 1..Len(timers) : TimerFire(h)
  \/ \E s \in Sockets, c \in KnownCallIds : Accept(s, c)
  \/ \E s \in Sockets, c \in KnownCallIds, r \in Reasons : Decline(s, c, r)
  \/ \E e \in EndEvents, c \in KnownCallIds : EndCall(e[1], c, e[2])
  \/ \E i \in 1..Len(tasks), ok \in BOOLEAN : TaskResume(i, ok)
  \/ \E s \in Sockets : Disconnect(s)
  \/ Tick(CALL_TIMEOUT_MS)

Spec == Init /\ [][Next]_vars

\* the presence scenarios: any connection announces any identity, signaling is relayed
NextPresence ==
  \/ \E s \in Sockets, u \in Users \cup {NoUser} : UserOnline(s, u)
  \/ \E s \in Sockets, k \in RelayKinds, c \in KnownCallIds, t \in Users : Relay(s, k, c, t)
  \/ \E s \in Sockets : Disconnect(s)

SpecPresence == Init /\ [][NextPresence]_vars

\* the cleanup scenarios: a third connection, so that a disconnect meets sessions it is
\* no party of; each triple is a connection, the callerId it sends and the receiverId
CleanupSockets == Sockets \cup {"s3"}
CleanupAnnouncements == Announcements \cup {<<"s3", "u3">>}
CleanupCalls == {<<"s1", "u1", "u2">>, <<"s3", "u3", "u2">>, <<"s3", "u3", "u1">>}

InitCleanup ==
  /\ now = 0
  /\ closed = {}
  /\ socketUserId = [s \in CleanupSockets |-> NoUser]
  /\ onlineUsers = [u \in {} |-> NoSocket]
  /\ activeCalls = <<>>
  /\ callTimeouts = [c \in {} |-> 0]
  /\ timers = <<>>
  /\ tasks = <<>>
  /\ written = <<>>
  /\ emits = <<>>

NextCleanup ==
  \/ \E a \in CleanupAnnouncements : UserOnline(a[1], a[2])
  \/ \E c \in CleanupCalls, info \in CallerInfos : Initiate(c[1], c[3], c[2], info)
  \/ \E s \in CleanupSockets, c \in KnownCallIds : Accept(s, c)
  \/ \E s \in CleanupSockets : Disconnect(s)

SpecCleanup == InitCleanup /\ [][NextCleanup]_vars

\* the signaling scenarios: offers, answers and candidates relayed while calls are set
\* up, accepted and torn down by a disconnect
NextRelay ==
  \/ \E a \in Announcements : UserOnline(a[1], a[2])
  \/ \E s \in Initiators, r \in ReceiverIds, c \in CallerIds, info \in CallerInfos :
        Initiate(s, r, c, info)
  \/ \E s \in Sockets, c \in KnownCallIds : Accept(s, c)
  \/ \E s \in Sockets, k \in RelayKinds, c \in KnownCallIds, t \in Users : Relay(s, k, c, t)
  \/ \E s \in Sockets : Disconnect(s)

SpecRelay == Init /\ [][NextRelay]_vars

\* the scheduling scenarios: calls are initiated while the clock of the model can still
\* reach their deadline; the receiver accepts or declines, the caller ends; the clock
\* advances, a timer whose deadline has passed runs its callback, and every awaited
\* write settles
Receivers == {"s2"}

NextLive ==
  \/ \E a \in Announcements : UserOnline(a[1], a[2])
  \/ \E s \in Initiators, r \in ReceiverIds, c \in CallerIds, info \in CallerInfos :
        /\ now + CALL_TIMEOUT_MS <= MaxTicks * CALL_TIMEOUT_MS
        /\ Initiate(s, r, c, info)
  \/ \E h \in 1..Len(timers) : TimerFire(h)
  \/ \E s \in Receivers, c \in KnownCallIds : Accept(s, c)
  \/ \E s \in Receivers, c \in KnownCallIds : Decline(s, c, "")
  \/ \E s \in Initiators, c \in KnownCallIds : EndCall(s, c, Undefined)
  \/ \E i \in 1..Len(tasks), ok \in BOOLEAN : TaskResume(i, ok)
  \/ \E s \in Sockets : Disconnect(s)
  \/ Tick(CALL_TIMEOUT_MS)

Fairness ==
  /\ WF_vars(Tick(CALL_TIMEOUT_MS))
  /\ \A h \in 1..MaxCalls : WF_vars(h \in 1..Len(timers) /\ TimerFire(h))
  /\ \A i \in 1..(MaxCalls + MaxEnding) :
        WF_vars(i \in 1..Len(tasks) /\ \E ok \in BOOLEAN : TaskResume(i, ok))

SpecLive == Init /\ [][NextLive]_vars /\ Fairness

\* ------------------------------------------------------------------ claims
TerminalEvents == {"audio:call:declined", "audio:call:missed", "audio:call:ended"}
Emitted(event, callId) == \E i \in 1..Len(emits) : emits[i].event = event /\ emits[i].callId = callId
\* the turn in which a suspended handler leaves its try/catch and runs to its end
Finishes(i, ok) == TaskResume(i, ok) /\ (~ok \/ tasks[i].step = 2)

\* C1: every session of activeCalls is 'ringing' or 'active', and when a termination
\* path for a callId (decline, explicit end, timeout fire on a ringing call, disconnect
\* cleanup of a participant connection) has run to its end, activeCalls holds no
\* session for that callId.
C1_StatusInv == \A i \in 1..Len(activeCalls) : activeCalls[i].status \in {"ringing", "active"}
C1_Terminated ==
  /\ \A s \in Sockets, c \in KnownCallIds, r \in Reasons :
       Decline(s, c, r) /\ HasCall(c) => c \notin IdsOf(activeCalls')
  /\ \A i \in 1..Len(tasks), ok \in BOOLEAN :
       Finishes(i, ok) => tasks[i].callId \notin IdsOf(activeCalls')
  /\ \A s \in Sockets :
       Disconnect(s) => \A j \in 1..Len(activeCalls) :
                          Involves(activeCalls[j], s) => activeCalls[j].id \notin IdsOf(activeCalls')
C1_SessionStore == [](C1_StatusInv) /\ [][C1_Terminated]_vars
\* a termination path has just run to its end for a call that had a session
C1_Witness ==
  \E i \in 1..Len(emits) : emits[i].event \in TerminalEvents /\ ~HasCall(emits[i].callId)

\* C2: callTimeouts holds an entry for a callId only if activeCalls holds a session
\* with that callId whose status is 'ringing'.
C2_TimeoutOnlyWhileRinging ==
  \A c \in DOMAIN callTimeouts : HasCall(c) /\ GetCall(c).status = "ringing"

\* C3: once an accept or a decline for a callId has been processed while the timer of
\* that call was still pending, that timer never fires, no 'audio:call:missed' is
\* emitted for the callId and the timeout handler writes no missed-call record for it.
Disarmed(c) ==
  \E h \in 1..Len(timers) : /\ timers[h].callId = c
                            /\ timers[h].state = "cleared"
                            /\ timers[h].by \in {"accept", "decline"}
C3_TimeoutDisarm ==
  [][\A c \in KnownCallIds :
       Disarmed(c) =>
         /\ \A h \in 1..Len(timers) :
              timers[h].callId = c /\ timers[h].state = "cleared" => timers'[h].state = "cleared"
         /\ \A i \in 1..Len(emits') :
              ~(emits'[i].event = "audio:call:missed" /\ emits'[i].callId = c)
         /\ \A i \in 1..Len(tasks), ok \in BOOLEAN :
              TaskResume(i, ok) /\ tasks[i].kind = "timeout" /\ tasks[i].callId = c
                => written' = <<>>]_vars

\* the missed-call document of one direction
MissedDoc(from, to) ==
  [sender |-> from, receiver |-> to, type |-> "call", duration |-> 0, callType |-> "audio",
   status |-> "missed"]
MissedPair(c) == <<MissedDoc(c.caller, c.receiver), MissedDoc(c.receiver, c.caller)>>

C5_IdempotentDecline ==
  /\ [](\A c \in KnownCallIds : Emitted("audio:call:declined", c) => ~HasCall(c))
  /\ [][\A s \in Sockets, c \in KnownCallIds, r \in Reasons :
          Emitted("audio:call:declined", c) /\ Decline(s, c, r)
            => /\ emits' = <<>>
               /\ written' = <<>>
               /\ UNCHANGED <<now, closed, socketUserId, onlineUsers, activeCalls,
                              callTimeouts, timers, tasks>>]_vars
\* a first decline has just removed a ringing session
C5_Witness ==
  \E c \in KnownCallIds : /\ Emitted("audio:call:declined", c)
                          /\ ~HasCall(c)
                          /\ \E h \in 1..Len(timers) : timers[h].callId = c /\ timers[h].by = "decline"

\* C6: a 'user:online' for a userId that another live connection holds leaves exactly one
\* entry for the userId, pointing to the announcing connection; the entry then stays
\* until a further 'user:online' for the userId or the disconnect of a connection bound
\* to it; and every offer, answer or ICE candidate targeting the userId is delivered to
\* the connection on record only.
C6_PresenceOverwrite ==
  [][/\ \A s \in Sockets, u \in Users :
          UserOnline(s, u) => /\ DOMAIN onlineUsers' = DOMAIN onlineUsers \cup {u}
                              /\ onlineUsers'[u] = s
                              /\ \A v \in DOMAIN onlineUsers \ {u} : onlineUsers'[v] = onlineUsers[v]
     /\ \A u \in DOMAIN onlineUsers :
          (u \notin DOMAIN onlineUsers' \/ onlineUsers'[u] # onlineUsers[u])
            => \E s \in Sockets : UserOnline(s, u) \/ (Disconnect(s) /\ socketUserId[s] = u)
     /\ \A s \in Sockets, k \in RelayKinds, c \in KnownCallIds, t \in DOMAIN onlineUsers :
          Relay(s, k, c, t) => /\ Len(emits') = 1
                               /\ emits'[1].to = onlineUsers[t]
                               /\ emits'[1].event = k]_vars
\* two live connections have announced the same userId, the second after the first, and
\* a relay targeting it has just been delivered to the second
C6_Witness ==
  /\ closed = {}
  /\ socketUserId["s1"] = "u1" /\ socketUserId["s2"] = "u1"
  /\ onlineUsers["u1"] = "s2"
  /\ Len(emits) = 1 /\ emits[1].event \in RelayKinds /\ emits[1].to = "s2"

\* C7: the disconnect of a connection that is no longer the one on record for its user
\* identity leaves the presence entry of that identity in place and broadcasts no
\* 'offline' user:status.
C7_StaleDisconnectGuard ==
  [][\A s \in Sockets :
       LET u == socketUserId[s] IN
       Disconnect(s) /\ u \in DOMAIN onlineUsers /\ onlineUsers[u] # s
         => /\ u \in DOMAIN onlineUsers' /\ onlineUsers'[u] = onlineUsers[u]
            /\ \A i \in 1..Len(emits') : emits'[i].event # "user:status"]_vars

\* C8: an 'audio:call:initiate' naming a receiverId without presence entry emits one
\* 'audio:call:error' with message 'User is offline', to the initiating connection
\* only, and changes neither the session store, nor the timeout registry and its
\* timers, nor the call history (nothing written, no handler left awaiting a write).
C8_OfflineInitiate ==
  [][\A s \in Initiators, r \in ReceiverIds, c \in CallerIds, info \in CallerInfos :
       Initiate(s, r, c, info) /\ r \notin DOMAIN onlineUsers
         => /\ Len(emits') = 1
            /\ emits'[1].to = s
            /\ emits'[1].event = "audio:call:error"
            /\ emits'[1].data.reason = "User is offline"
            /\ activeCalls' = activeCalls
            /\ callTimeouts' = callTimeouts
            /\ timers' = timers
            /\ written' = <<>>
            /\ tasks' = tasks]_vars
\* the error has just been emitted while the receiver is offline
C8_Witness ==
  /\ "u2" \notin DOMAIN onlineUsers
  /\ Len(emits) = 1 /\ emits[1].event = "audio:call:error" /\ emits[1].to = "s1"

\* C9: an 'audio:call:initiate' naming a receiverId with a presence entry stores one new
\* session under the new callId, 'ringing', with callerSocketId the initiating
\* connection and receiverSocketId the receiver's presence connection, leaves the
\* sessions of other callIds alone, arms one timer of 30 seconds for the new callId and
\* records it, and emits 'audio:call:initiated' with the callId to the initiating
\* connection only and 'audio:call:incoming' with the callId to the receiver's
\* connection only.
C9_SuccessfulInitiate ==
  [][\A s \in Initiators, r \in ReceiverIds, c \in CallerIds, info \in CallerInfos :
       Initiate(s, r, c, info) /\ r \in DOMAIN onlineUsers
         => LET callId == CallIdOf(c, r, now)
                new == {i \in 1..Len(activeCalls') : activeCalls'[i].id = callId}
            IN
            /\ Cardinality(new) = 1
            /\ \A i \in new : /\ activeCalls'[i].status = "ringing"
                              /\ activeCalls'[i].callerSocketId = s
                              /\ activeCalls'[i].receiverSocketId = onlineUsers[r]
                              /\ activeCalls'[i].caller = c
                              /\ activeCalls'[i].receiver = r
                              /\ activeCalls'[i].startedAt = now
            /\ \A i \in 1..Len(activeCalls) : activeCalls[i].id # callId
                 => \E j \in 1..Len(activeCalls') : activeCalls'[j] = activeCalls[i]
            /\ Len(activeCalls') <= Len(activeCalls) + 1
            /\ Len(timers') = Len(timers) + 1
            /\ \A h \in 1..Len(timers) : timers'[h] = timers[h]
            /\ timers'[Len(timers')].callId = callId
            /\ timers'[Len(timers')].state = "pending"
            /\ timers'[Len(timers')].deadline = now + CALL_TIMEOUT_MS
            /\ callId \in DOMAIN callTimeouts' /\ callTimeouts'[callId] = Len(timers')
            /\ Len(emits') = 2
            /\ emits'[1].event = "audio:call:initiated" /\ emits'[1].callId = callId
            /\ emits'[1].to = s
            /\ emits'[2].event = "audio:call:incoming" /\ emits'[2].callId = callId
            /\ emits'[2].to = onlineUsers[r]]_vars
\* a call has just been initiated: it rings, its timer is armed, both events are out
C9_Witness ==
  /\ Len(emits) = 2 /\ emits[1].event = "audio:call:initiated"
  /\ emits[2].event = "audio:call:incoming" /\ emits[2].to = "s2"
  /\ HasCall(emits[1].callId) /\ GetCall(emits[1].callId).status = "ringing"
  /\ emits[1].callId \in DOMAIN callTimeouts
  /\ timers[callTimeouts[emits[1].callId]].state = "pending"

\* C10: an 'audio:call:accept' for a callId of the session store leaves no timer armed
\* for that callId pending and no registry entry for it, leaves the session in the
\* store with status 'active' and acceptedAt set, and emits 'audio:call:accepted' with
\* the callId to the session's caller connection and to its receiver connection.
C10_Accept ==
  [][\A s \in Sockets, c \in KnownCallIds :
       Accept(s, c) /\ HasCall(c)
         => /\ \A h \in 1..Len(timers') : timers'[h].callId = c => timers'[h].state # "pending"
            /\ c \notin DOMAIN callTimeouts'
            /\ \E i \in 1..Len(activeCalls') :
                 /\ activeCalls'[i].id = c
                 /\ activeCalls'[i].status = "active"
                 /\ activeCalls'[i].acceptedAt = now
            /\ Len(activeCalls') = Len(activeCalls)
            /\ \E i \in 1..Len(emits') :
                 /\ emits'[i].event = "audio:call:accepted" /\ emits'[i].callId = c
                 /\ emits'[i].to = GetCall(c).callerSocketId
            /\ \E i \in 1..Len(emits') :
                 /\ emits'[i].event = "audio:call:accepted" /\ emits'[i].callId = c
                 /\ emits'[i].to = GetCall(c).receiverSocketId]_vars

\* C11: an accept, a decline or an end whose callId is not in the session store emits
\* nothing, writes nothing and starts no write, and leaves the presence registry, the
\* session store and the timeout registry with its timers unchanged.
C11_StaleCallIdNoOp ==
  [][\A c \in KnownCallIds :
       c \notin CallIds
         /\ \/ \E s \in Sockets : Accept(s, c)
            \/ \E s \in Sockets, r \in Reasons : Decline(s, c, r)
            \/ \E e \in EndEvents : EndCall(e[1], c, e[2])
         => /\ emits' = <<>>
            /\ written' = <<>>
            /\ UNCHANGED <<onlineUsers, activeCalls, callTimeouts, timers, tasks>>]_vars
\* a callId that was issued has left the session store, the last turn emitted and wrote
\* nothing, and no handler is suspended: the state a stale accept, decline or end leaves
C11_Witness ==
  /\ \E h \in 1..Len(timers) : timers[h].callId \notin CallIds
  /\ emits = <<>> /\ written = <<>> /\ tasks = <<>>
  /\ closed = {}

\* C12: an explicit end of a stored session takes as final duration the duration the
\* client supplied, else the whole seconds elapsed since acceptedAt when the call was
\* accepted, else 0; it records 'completed' exactly when the session was accepted
\* (status 'active' with acceptedAt) and the final duration is positive, and 'missed'
\* otherwise; the records it writes carry that duration and that status.
C12_EndStatusDuration ==
  [][/\ \A e \in EndEvents, c \in KnownCallIds :
          EndCall(e[1], c, e[2]) /\ c \in CallIds
            => LET call == GetCall(c)
                   accepted == call.status = "active" /\ call.acceptedAt # Undefined
                   t == tasks'[Len(tasks')]
               IN
               /\ Len(tasks') = Len(tasks) + 1
               /\ t.kind = "end" /\ t.callId = c
               /\ t.finalDuration = IF e[2] # Undefined THEN e[2]
                                    ELSE IF accepted THEN (now - call.acceptedAt) \div 1000
                                    ELSE 0
               /\ t.callStatus \in {"completed", "missed"}
               /\ t.callStatus = "completed" <=> (accepted /\ t.finalDuration > 0)
     /\ \A i \in 1..Len(tasks) :
          TaskResume(i, TRUE) /\ tasks[i].kind = "end"
            => /\ Len(written') = 1
               /\ written'[1].status = tasks[i].callStatus
               /\ written'[1].duration = tasks[i].finalDuration]_vars
\* an accepted call is being ended without a client duration, 30 s after the accept
C12_Witness ==
  \E i \in 1..Len(tasks) : /\ tasks[i].kind = "end"
                           /\ tasks[i].finalDuration = CALL_TIMEOUT_MS \div 1000
                           /\ tasks[i].callStatus = "completed"
                           /\ Truthy(tasks[i].wasAccepted)

\* C13: an explicit end of a stored session (ringing or active) cancels the session's
\* registered timer and removes its registry entry; when both writes succeed, the
\* handler has written exactly two records, caller to receiver and receiver to caller,
\* with the same status and duration, emits 'audio:call:ended' carrying callId,
\* duration, wasAccepted and endedBy to the caller connection and to the receiver
\* connection, and leaves no session for the callId in the store.
C13_EndEffects ==
  [][/\ \A e \in EndEvents, c \in KnownCallIds :
          EndCall(e[1], c, e[2]) /\ c \in CallIds
            => /\ c \notin DOMAIN callTimeouts'
               /\ c \in DOMAIN callTimeouts => timers'[callTimeouts[c]].state # "pending"
     /\ \A i \in 1..Len(tasks) :
          Finishes(i, TRUE) /\ tasks[i].kind = "end"
            => LET t == tasks[i]
                   docs == t.wrote \o written'
               IN
               /\ Len(docs) = 2
               /\ docs[1].sender = t.call.caller /\ docs[1].receiver = t.call.receiver
               /\ docs[2].sender = t.call.receiver /\ docs[2].receiver = t.call.caller
               /\ \A k \in 1..2 : /\ docs[k].status = t.callStatus
                                  /\ docs[k].duration = t.finalDuration
                                  /\ docs[k].type = "call"
               /\ Len(emits') = 2
               /\ \A k \in 1..2 : /\ emits'[k].event = "audio:call:ended"
                                  /\ emits'[k].callId = t.callId
                                  /\ emits'[k].data.duration = t.finalDuration
                                  /\ emits'[k].data.wasAccepted = t.wasAccepted
                                  /\ emits'[k].data.user = socketUserId[t.sock]
               /\ emits'[1].to = t.call.callerSocketId
               /\ emits'[2].to = t.call.receiverSocketId
               /\ t.callId \notin IdsOf(activeCalls')]_vars
\* an end handler has just written its mirrored second record, notified both
\* connections and removed the session
C13_Witness ==
  /\ Len(emits) = 2
  /\ emits[1].event = "audio:call:ended" /\ emits[1].to = "s1"
  /\ emits[2].event = "audio:call:ended" /\ emits[2].to = "s2"
  /\ emits[1].data.reason = ""
  /\ Len(written) = 1 /\ written[1].sender = "u2" /\ written[1].receiver = "u1"
  /\ ~HasCall(emits[1].callId)

\* C14: a decline of a stored session cancels the session's registered timer and
\* removes its registry entry, emits one 'audio:call:declined' to the caller connection
\* and nothing to any other connection, removes the session, writes no record and
\* starts no write.
C14_DeclineEffects ==
  [][\A s \in Sockets, c \in KnownCallIds, r \in Reasons :
       Decline(s, c, r) /\ c \in CallIds
         => LET call == GetCall(c) IN
            /\ c \notin DOMAIN callTimeouts'
            /\ c \in DOMAIN callTimeouts => timers'[callTimeouts[c]].state # "pending"
            /\ Len(emits') = 1
            /\ emits'[1].event = "audio:call:declined"
            /\ emits'[1].callId = c
            /\ emits'[1].to = call.callerSocketId
            /\ emits'[1].to # call.receiverSocketId
            /\ c \notin IdsOf(activeCalls')
            /\ Len(activeCalls') = Len(activeCalls) - 1
            /\ written' = <<>>
            /\ tasks' = tasks]_vars
\* a ringing call has just been declined with a reason: its timer is cancelled, the
\* caller connection alone is told, the session is gone and nothing was written
C14_Witness ==
  /\ Len(emits) = 1
  /\ emits[1].event = "audio:call:declined" /\ emits[1].to = "s1"
  /\ emits[1].data.reason = "busy"
  /\ ~HasCall(emits[1].callId)
  /\ \A h \in 1..Len(timers) : timers[h].state = "cleared" /\ timers[h].by = "decline"
  /\ timers # <<>> /\ written = <<>> /\ tasks = <<>>

\* the session names the connection as its caller or its receiver connection
References(call, s) == s \in {call.callerSocketId, call.receiverSocketId}

\* C15: the disconnect of a connection removes every session whose callerSocketId or
\* receiverSocketId is that connection, cancels its registered timer and removes its
\* registry entry, emits for each one 'audio:call:ended' with reason 'User
\* disconnected' to the other party's stored connection and to no one else, writes no
\* record and starts no write; a session that does not reference the connection keeps
\* its fields, its registry entry and its timer; afterwards no stored session
\* references the connection.
C15_DisconnectCleanup ==
  [][\A s \in DOMAIN socketUserId :
       Disconnect(s)
         => LET hit == {i \in 1..Len(activeCalls) : References(activeCalls[i], s)}
                ended == {k \in 1..Len(emits') : emits'[k].event = "audio:call:ended"}
            IN
            /\ \A i \in hit :
                 LET call == activeCalls[i] IN
                 /\ call.id \notin IdsOf(activeCalls')
                 /\ call.id \notin DOMAIN callTimeouts'
                 /\ call.id \in DOMAIN callTimeouts
                      => timers'[callTimeouts[call.id]].state # "pending"
                 /\ Cardinality({k \in ended : emits'[k].callId = call.id}) = 1
                 /\ \A k \in ended :
                      emits'[k].callId = call.id
                        => /\ emits'[k].data.reason = "User disconnected"
                           /\ emits'[k].to = IF call.callerSocketId = s
                                             THEN call.receiverSocketId
                                             ELSE call.callerSocketId
            /\ Cardinality(ended) = Cardinality(hit)
            /\ \A k \in 1..Len(emits') : k \notin ended => emits'[k].event = "user:status"
            /\ written' = <<>>
            /\ tasks' = tasks
            /\ \A i \in 1..Len(activeCalls) \ hit :
                 LET call == activeCalls[i] IN
                 /\ \E j \in 1..Len(activeCalls') : activeCalls'[j] = call
                 /\ call.id \in DOMAIN callTimeouts
                      => /\ call.id \in DOMAIN callTimeouts'
                         /\ callTimeouts'[call.id] = callTimeouts[call.id]
                         /\ timers'[callTimeouts[call.id]] = timers[callTimeouts[call.id]]
            /\ Len(activeCalls') = Len(activeCalls) - Cardinality(hit)
            /\ \A j \in 1..Len(activeCalls') : ~References(activeCalls'[j], s)]_vars
\* the first connection has just disconnected: its call to the second is torn down and
\* the second is told, while the call of the third to the second is still stored
C15_Witness ==
  /\ closed = {"s1"}
  /\ \E k \in 1..Len(emits) : /\ emits[k].event = "audio:call:ended"
                              /\ emits[k].to = "s2"
                              /\ emits[k].data.reason = "User disconnected"
                              /\ emits[k].callId.caller = "u1"
  /\ \E j \in 1..Len(activeCalls) : /\ activeCalls[j].callerSocketId = "s3"
                                    /\ activeCalls[j].receiverSocketId = "s2"
                                    /\ activeCalls[j].id \in DOMAIN callTimeouts

\* C16: a timer that fires while the session of its callId is stored and 'ringing'
\* starts the missed-call handler, which ends by emitting 'audio:call:missed' to the
\* caller connection with reason 'No answer' and callType 'outgoing' and to the
\* receiver connection with reason 'Missed call' and callType 'incoming', and by
\* removing the session and the timeout entry of the callId; a timer that fires while
\* the session is absent or not 'ringing' emits nothing, writes nothing, starts no
\* write and changes neither the session store nor the timeout registry.
C16_TimeoutFire ==
  [][/\ \A h \in 1..Len(timers) :
          TimerFire(h)
            => LET c == timers[h].callId
                   ringing == \E j \in 1..Len(activeCalls) :
                                 activeCalls[j].id = c /\ activeCalls[j].status = "ringing"
               IN
               IF ringing
               THEN /\ Len(tasks') = Len(tasks) + 1
                    /\ tasks'[Len(tasks')].kind = "timeout"
                    /\ tasks'[Len(tasks')].callId = c
                    /\ tasks'[Len(tasks')].call = CallRef(GetCall(c))
               ELSE /\ emits' = <<>> /\ written' = <<>> /\ tasks' = tasks
                    /\ activeCalls' = activeCalls /\ callTimeouts' = callTimeouts
     /\ \A i \in 1..Len(tasks), ok \in BOOLEAN :
          Finishes(i, ok) /\ tasks[i].kind = "timeout"
            => LET t == tasks[i] IN
               /\ Len(emits') = 2
               /\ \A k \in 1..2 : emits'[k].event = "audio:call:missed" /\ emits'[k].callId = t.callId
               /\ emits'[1].to = t.call.callerSocketId
               /\ emits'[1].data.reason = "No answer" /\ emits'[1].data.callType = "outgoing"
               /\ emits'[2].to = t.call.receiverSocketId
               /\ emits'[2].data.reason = "Missed call" /\ emits'[2].data.callType = "incoming"
               /\ t.callId \notin IdsOf(activeCalls')
               /\ t.callId \notin DOMAIN callTimeouts']_vars
\* a missed-call handler has just ended: both connections are told, each with its own
\* reason, and neither the session nor the timeout entry is left
C16_Witness ==
  /\ Len(emits) = 2
  /\ emits[1].event = "audio:call:missed" /\ emits[1].to = "s1"
  /\ emits[1].data.callType = "outgoing"
  /\ emits[2].event = "audio:call:missed" /\ emits[2].to = "s2"
  /\ emits[2].data.callType = "incoming"
  /\ ~HasCall(emits[1].callId)
  /\ emits[1].callId \notin DOMAIN callTimeouts
  /\ \E h \in 1..Len(timers) : timers[h].state = "fired"

\* C17: while an explicit-end handler or a timeout handler awaits a history write, the
\* session store holds no session for its callId and the timeout registry no entry for
\* it, so that an accept, a decline, an end or a disconnect processed meanwhile for the
\* callId takes the no-op path.
C17_ResolveBeforeAwait ==
  \A i \in 1..Len(tasks) : /\ tasks[i].callId \notin CallIds
                           /\ tasks[i].callId \notin DOMAIN callTimeouts

\* the records the handlers suspended for callId c have written so far
RECURSIVE WroteFor(_, _)
WroteFor(ts, c) ==
  IF ts = <<>> THEN 0
  ELSE (IF Head(ts).callId = c THEN Len(Head(ts).wrote) ELSE 0) + WroteFor(Tail(ts), c)

\* C18: at most two history records are ever written for one callId: whenever a
\* handler writes a record for a callId, that record and those written so far by it and
\* by the other handlers suspended for the callId are at most two.
C18_NoDoubleHistoryWrite ==
  [][\A i \in 1..Len(tasks) :
       TaskResume(i, TRUE) => WroteFor(tasks, tasks[i].callId) + 1 <= 2]_vars

\* C19: when a history write throws in an explicit-end handler or in a timeout handler,
\* the handler writes nothing more, still emits 'audio:call:ended' (respectively
\* 'audio:call:missed') to the caller connection and to the receiver connection,
\* emits no error to any client, removes the session and ends.
C19_PersistenceFailure ==
  [][\A i \in 1..Len(tasks) :
       TaskResume(i, FALSE)
         => LET t == tasks[i]
                event == IF t.kind = "end" THEN "audio:call:ended" ELSE "audio:call:missed"
            IN
            /\ written' = <<>>
            /\ Len(emits') = 2
            /\ \A k \in 1..2 : emits'[k].event = event /\ emits'[k].callId = t.callId
            /\ emits'[1].to = t.call.callerSocketId
            /\ emits'[2].to = t.call.receiverSocketId
            /\ t.callId \notin IdsOf(activeCalls')
            /\ Len(tasks') = Len(tasks) - 1
            /\ \A j \in 1..Len(tasks') : tasks'[j] \in {tasks[k] : k \in 1..Len(tasks)}]_vars
\* an explicit-end handler whose write was rejected has just ended: nothing written,
\* both connections told, the session gone
C19_Witness ==
  /\ written = <<>>
  /\ Len(emits) = 2
  /\ emits[1].event = "audio:call:ended" /\ emits[1].to = "s1" /\ emits[1].data.reason = ""
  /\ emits[2].event = "audio:call:ended" /\ emits[2].to = "s2"
  /\ ~HasCall(emits[1].callId)
  /\ tasks = <<>>

\* C20: an initiate whose callId is already in the session store is rejected: the
\* stored session stays as it is, and no timer is armed or registered for the callId.
C20_DuplicateRejected ==
  [][\A s \in Initiators, r \in ReceiverIds, c \in CallerIds, info \in CallerInfos :
       Initiate(s, r, c, info) /\ CallIdOf(c, r, now) \in CallIds
         => /\ activeCalls' = activeCalls
            /\ timers' = timers
            /\ callTimeouts' = callTimeouts]_vars

\* an accept, a decline, an end (its first turn or a later one) or a timeout fire (its
\* first turn or a later one) for callId a takes this step
Touches(a) ==
  \/ \E s \in Sockets : Accept(s, a)
  \/ \E s \in Sockets, r \in Reasons : Decline(s, a, r)
  \/ \E e \in EndEvents : EndCall(e[1], a, e[2])
  \/ \E i \in 1..Len(tasks), ok \in BOOLEAN : TaskResume(i, ok) /\ tasks[i].callId = a
  \/ \E h \in 1..Len(timers) : TimerFire(h) /\ timers[h].callId = a

\* C21: an accept, decline, end or timeout fire for callId A leaves the session, the
\* timeout entry and the timers of every other callId B as they are, and emits no
\* event that carries callId B.
C21_Independence ==
  [][\A a \in KnownCallIds :
       Touches(a)
         => \A b \in KnownCallIds \ {a} :
              /\ b \in CallIds
                   => \E j \in 1..Len(activeCalls') : activeCalls'[j] = GetCall(b)
              /\ b \notin CallIds => b \notin IdsOf(activeCalls')
              /\ b \in DOMAIN callTimeouts
                   => b \in DOMAIN callTimeouts' /\ callTimeouts'[b] = callTimeouts[b]
              /\ b \notin DOMAIN callTimeouts => b \notin DOMAIN callTimeouts'
              /\ \A h \in 1..Len(timers) : timers[h].callId = b => timers'[h] = timers[h]
              /\ \A k \in 1..Len(emits') : emits'[k].callId # b]_vars
\* a call has just been declined while a later call, with its own timer armed, is stored
C21_Witness ==
  \E k \in 1..Len(emits), j \in 1..Len(activeCalls) :
     /\ emits[k].event = "audio:call:declined"
     /\ activeCalls[j].id # emits[k].callId
     /\ activeCalls[j].status = "ringing"
     /\ activeCalls[j].id \in DOMAIN callTimeouts
     /\ timers[callTimeouts[activeCalls[j].id]].state = "pending"

\* C22: an offer, an answer or an ICE candidate whose target identity has a presence
\* entry is forwarded as one event of the same kind to the connection of that entry
\* and to no other, carrying the sender's identity and the callId; without a presence
\* entry nothing is emitted; in both cases, whether or not the callId names a stored
\* session, nothing is written and no state changes.
C22_SignalingRelay ==
  [][\A s \in Sockets, k \in RelayKinds, c \in KnownCallIds, t \in Users :
       Relay(s, k, c, t)
         => /\ IF t \in DOMAIN onlineUsers
               THEN /\ Len(emits') = 1
                    /\ emits'[1].event = k
                    /\ emits'[1].to = onlineUsers[t]
                    /\ emits'[1].callId = c
                    /\ emits'[1].data.user = socketUserId[s]
               ELSE emits' = <<>>
            /\ written' = <<>>
            /\ UNCHANGED <<now, closed, socketUserId, onlineUsers, activeCalls,
                           callTimeouts, timers, tasks>>]_vars
\* an answer carrying a callId that names no session has just been forwarded from the
\* second user to the first user's connection, while a session is stored
C22_Witness ==
  /\ Len(emits) = 1
  /\ emits[1].event = "audio:webrtc:answer"
  /\ emits[1].to = "s1" /\ emits[1].data.user = "u2"
  /\ emits[1].callId \notin CallIds
  /\ activeCalls # <<>>

\* C23: at any time at most one pending timer exists per callId.
C23_TimerReplace ==
  \A h1, h2 \in 1..Len(timers) :
     (/\ h1 # h2
      /\ timers[h1].callId = timers[h2].callId
      /\ timers[h1].state = "pending") => timers[h2].state # "pending"

\* C24: a decline for a stored session whose status is 'active' does not remove the
\* session and emits nothing; a decline removes a session and emits
\* 'audio:call:declined' only when the session is 'ringing'.
C24_DeclineOnlyRinging ==
  [][\A s \in Sockets, c \in KnownCallIds, r \in Reasons :
       Decline(s, c, r) /\ c \in CallIds /\ GetCall(c).status = "active"
         => /\ activeCalls' = activeCalls
            /\ emits' = <<>>]_vars

\* C25: an accept changes a status only from 'ringing' to 'active'; no step takes the
\* session of a callId from 'active' back to 'ringing'; an accept for a session that is
\* already 'active' leaves acceptedAt as it is and emits no 'audio:call:accepted'.
C25_AcceptOnlyRinging ==
  [][/\ \A c \in KnownCallIds :
          (c \in CallIds /\ GetCall(c).status = "active")
            => \A j \in 1..Len(activeCalls') :
                 activeCalls'[j].id = c => activeCalls'[j].status = "active"
     /\ \A s \in Sockets, c \in KnownCallIds :
          Accept(s, c) /\ c \in CallIds /\ GetCall(c).status = "active"
            => /\ activeCalls' = activeCalls
               /\ \A k \in 1..Len(emits') : emits'[k].event # "audio:call:accepted"]_vars

\* the callIds an initiate can generate
LiveCallIds ==
  {CallIdOf(c, r, k * CALL_TIMEOUT_MS) : c \in CallerIds, r \in ReceiverIds, k \in 0..MaxTicks}
Ringing(c) == \E j \in 1..Len(activeCalls) : activeCalls[j].id = c /\ activeCalls[j].status = "ringing"

\* C26: when time advances, due timers fire and every history write settles, a session
\* that is 'ringing' eventually becomes 'active' or leaves the store: no session stays
\* 'ringing' forever.
C26_RingingResolves == \A c \in LiveCallIds : Ringing(c) ~> ~Ringing(c)
\* a call rang unanswered until its timer fired, and the missed-call handler has run to
\* its end: the store is empty again
C26_Witness ==
  /\ now = CALL_TIMEOUT_MS
  /\ timers # <<>> /\ \A h \in 1..Len(timers) : timers[h].state = "fired"
  /\ activeCalls = <<>> /\ tasks = <<>>
  /\ \E k \in 1..Len(emits) : emits[k].event = "audio:call:missed"

\* C27: once a call has been accepted (its stored session is 'active'), no
\* 'audio:call:missed' is emitted for its callId and the timeout handler does not
\* remove the session.
C27_NoMissedAfterAccepted ==
  [][\A c \in KnownCallIds :
       (c \in CallIds /\ GetCall(c).status = "active")
         => /\ \A k \in 1..Len(emits') :
                 ~(emits'[k].event = "audio:call:missed" /\ emits'[k].callId = c)
            /\ \A i \in 1..Len(tasks), ok \in BOOLEAN :
                 TaskResume(i, ok) /\ tasks[i].kind = "timeout" /\ tasks[i].callId = c
                   => c \in IdsOf(activeCalls')]_vars

\* C28: a participant connection receives at most one terminal event per callId: when a
\* terminal event for a callId is emitted to a connection, no handler is left
\* suspended that will emit a terminal event for that callId to the same connection.
C28_SingleTerminal ==
  [][\A k \in 1..Len(emits') :
       emits'[k].event \in TerminalEvents
         => \A i \in 1..Len(tasks') :
              tasks'[i].callId = emits'[k].callId
                => emits'[k].to \notin {tasks'[i].call.callerSocketId,
                                        tasks'[i].call.receiverSocketId}]_vars

\* C29: every presence entry maps its user identity to a connection that has not
\* disconnected.
C29_NoStalePresence ==
  \A u \in DOMAIN onlineUsers : onlineUsers[u] \notin closed

\* C30: an accept or a decline sent from a connection other than the session's receiver
\* connection, and an end sent from a connection that is neither its caller nor its
\* receiver connection, leaves the session store, the timeout registry and the timers
\* unchanged and starts no handler.
C30_ParticipantOnly ==
  [][\A s \in DOMAIN socketUserId, c \in KnownCallIds :
       c \in CallIds
         => /\ (s # GetCall(c).receiverSocketId
                  /\ (Accept(s, c) \/ \E r \in Reasons : Decline(s, c, r)))
                 => UNCHANGED <<activeCalls, callTimeouts, timers, tasks>>
            /\ (s \notin {GetCall(c).callerSocketId, GetCall(c).receiverSocketId}
                  /\ \E e \in EndEvents : e[1] = s /\ EndCall(s, c, e[2]))
                 => UNCHANGED <<activeCalls, callTimeouts, timers, tasks>>]_vars
====
